---- MODULE Spec2Model ----
(***************************************************************************)
(* AI Resume Analyzer & Job Recommender: the resume parser                 *)
(* (src/src/resume_parser.py), the dataset preprocessor                    *)
(* (src/src/preprocess.py), the TF-IDF recommender (src/src/model.py) and  *)
(* the Streamlit script (src/app.py).                                      *)
(*                                                                         *)
(* A text is a sequence of tokens: a token is one whitespace character or  *)
(* one maximal run of non-whitespace characters (a "word", punctuation     *)
(* included), so no two words are adjacent.  Regular expressions and       *)
(* substring tests are tabulated over the words of the model: each table   *)
(* lists the words in which Python's re finds the pattern.                 *)
(***************************************************************************)
EXTENDS Integers, Sequences, FiniteSets, TLC

VARIABLES
    fn,     \* the function a single-call specification exercises
    args,   \* its arguments
    ret,    \* Pending, or what the call returned or raised
    \* The Streamlit process running src/app.py:
    pc,                 \* where the process or the current script run stands
    host,               \* working directory, environment, object store
    startup,            \* what load_env() did at import
    widgets,            \* file_that_is_uploaded, sample_limit, top_k
    txt_in_the_resume,
    df_cleaned,
    recommender,
    results,
    banner,             \* the message the run showed
    log,                \* the calls of the current script run, in order
    cache,              \* st.cache_data's entries for load_dataset
    executions,         \* per row cap, runs of to_preprocess_and_to_evaluate
    runs                \* script runs so far

call == <<fn, args, ret>>

app == <<pc, host, startup, widgets, txt_in_the_resume, df_cleaned, recommender,
         results, banner, log, cache, executions, runs>>

vars == <<call, app>>

Pending == [st |-> "pending"]
Returned(v) == [st |-> "returned", v |-> v]
Raised(e) == [st |-> "raised", exc |-> e]

\* Python's None, as a category label and as a missing return value.
None == "None"

\* The values of the process's variables while a single call is exercised.
AppOff ==
    /\ pc = "off"
    /\ host = None /\ startup = Pending /\ widgets = None
    /\ txt_in_the_resume = <<>> /\ df_cleaned = None
    /\ recommender = None /\ results = None
    /\ banner = "" /\ log = <<>> /\ cache = <<>> /\ executions = <<>> /\ runs = 0

(***************************************************************************)
(* Texts                                                                   *)
(***************************************************************************)
Whitespace == {" ", "\t", "\n"}

\* A missing cell (float nan): the one value of the model that is not a str.
NaN == <<"<NaN>">>

IsText(s) ==
    /\ s # NaN
    /\ \A i \in 1..Len(s) - 1 : s[i] \in Whitespace \/ s[i + 1] \in Whitespace

UpperToLower ==
    "QA" :> "qa" @@ "Selenium," :> "selenium," @@ "API" :> "api" @@
    "Financial" :> "financial" @@ "Excel" :> "excel" @@ "Software" :> "software" @@
    "Python," :> "python," @@ "React," :> "react," @@ "Data" :> "data" @@
    "SQL," :> "sql," @@ "Power" :> "power" @@ "BI," :> "bi," @@ "Digital" :> "digital" @@
    "SEO," :> "seo," @@ "Google" :> "google" @@ "Ads." :> "ads." @@ "HR" :> "hr" @@
    "Engineer" :> "engineer" @@ "Accountant" :> "accountant" @@
    "Gardener" :> "gardener" @@ "Acme" :> "acme" @@ "Tester" :> "tester" @@
    "Indeed" :> "indeed" @@
    \* the words of the column names
    "Job" :> "job" @@ "Title" :> "title" @@ "JD" :> "jd" @@ "SKILLS" :> "skills" @@
    "Employer" :> "employer" @@ "Name" :> "name" @@ "Contact" :> "contact" @@
    "Person" :> "person" @@ "Website" :> "website" @@ "Salary" :> "salary" @@
    "JobTitle" :> "jobtitle" @@ "JobDescription" :> "jobdescription" @@
    "Skills" :> "skills" @@ "Company" :> "company" @@ "Portal" :> "portal" @@
    "POSITION" :> "position"

\* str.lower()
lower(text) ==
    [i \in 1..Len(text) |->
        IF text[i] \in DOMAIN UpperToLower THEN UpperToLower[text[i]] ELSE text[i]]

\* str(x): a str is itself, float nan prints as "nan"
str(x) == IF x = NaN THEN <<"nan">> ELSE x

\* str.strip()
RECURSIVE lstrip(_)
lstrip(s) ==
    IF s # <<>> /\ Head(s) \in Whitespace THEN lstrip(Tail(s)) ELSE s

RECURSIVE rstrip(_)
rstrip(s) ==
    IF s # <<>> /\ s[Len(s)] \in Whitespace THEN rstrip(SubSeq(s, 1, Len(s) - 1)) ELSE s

strip(s) == rstrip(lstrip(s))

\* Words with a lone surrogate code point, which encode("utf-8", "ignore")
\* cannot encode, mapped to what is left of them ("" when nothing is).
Unencodable == "<U+D800>" :> "" @@ "QA<U+D800>" :> "QA"

\* text.encode("utf-8", "ignore").decode("utf-8", "ignore")
encode_decode(text) ==
    LET kept == SelectSeq(text, LAMBDA w : w \notin DOMAIN Unencodable \/ Unencodable[w] # "")
    IN  [i \in 1..Len(kept) |->
            IF kept[i] \in DOMAIN Unencodable THEN Unencodable[kept[i]] ELSE kept[i]]

\* re.sub(r"\s", " ", text): each whitespace character becomes a space.
sub_each_whitespace(s) ==
    [i \in 1..Len(s) |-> IF s[i] \in Whitespace THEN " " ELSE s[i]]

\* re.sub(r"\s+", " ", text): every maximal whitespace run becomes one space
RECURSIVE sub_whitespace(_)
sub_whitespace(s) ==
    IF s = <<>> THEN <<>>
    ELSE IF Head(s) \in Whitespace
         THEN <<" ">> \o sub_whitespace(lstrip(Tail(s)))
         ELSE <<Head(s)>> \o sub_whitespace(Tail(s))

\* Values that are not a str: float nan and None.
PyNone == <<"<None>">>
NotStr == {NaN, PyNone}

text_that_is_cleaned(text) ==
    IF text \in NotStr THEN <<>> ELSE strip(sub_whitespace(encode_decode(text)))

(***************************************************************************)
(* Category detection                                                      *)
(***************************************************************************)
\* A pattern with the lower-case words in which re.search finds it (one) and
\* the pairs of words, separated by whitespace only, across which it does (two).
Pat(re, one, two) == [re |-> re, one |-> one, two |-> two]

Patterns_of_categories ==
    <<
      [cat |-> "qa", pats |-> <<
          Pat("\\bqa\\b", {"qa"}, {}),
          Pat("quality\\s+assurance", {}, {<<"quality", "assurance">>}),
          Pat("selenium", {"selenium,"}, {}),
          Pat("pytest", {}, {}),
          Pat("automation\\b", {"automation"}, {}),
          Pat("sdet", {}, {}),
          Pat("cypress", {}, {}),
          Pat("testing", {"testing,", "testing"}, {})
      >>],
      [cat |-> "finance", pats |-> <<
          Pat("\\bfinance\\b", {}, {}),
          Pat("accounting", {}, {}),
          Pat("auditing", {}, {}),
          Pat("\\btax\\b", {"tax"}, {}),
          Pat("fp&a", {}, {}),
          Pat("reconciliation", {}, {}),
          Pat("budget", {"budgeting,", "budget"}, {})
      >>],
      [cat |-> "data", pats |-> <<
          Pat("\\bdata\\s+(analyst|scientist|engineer)\\b", {},
              {<<"data", "engineer">>, <<"data", "analyst">>}),
          Pat("\\bml\\b", {}, {}),
          Pat("\\bai\\b", {}, {}),
          Pat("\\bsql\\b", {"sql,"}, {}),
          Pat("python", {"python,", "python"}, {}),
          Pat("pandas", {}, {}),
          Pat("power\\s*bi", {}, {<<"power", "bi,">>}),
          Pat("tableau", {}, {})
      >>],
      [cat |-> "software", pats |-> <<
          Pat("\\bsoftware\\s+(developer|engineer)\\b", {},
              {<<"software", "engineer">>, <<"software", "developer">>}),
          Pat("java|node|react|django|spring|.net", {"react,", "internet"}, {}),
          Pat("\\bapi\\b", {"api"}, {})
      >>],
      [cat |-> "hr", pats |-> <<
          Pat("\\bhr\\b", {"hr"}, {}),
          Pat("recruit(ment|er)", {"recruitment"}, {}),
          Pat("talent\\s+acquisition", {}, {}),
          Pat("payroll", {"payroll"}, {})
      >>],
      [cat |-> "marketing", pats |-> <<
          Pat("\\bmarketing\\b", {}, {}),
          Pat("\\bseo\\b", {"seo,", "seo"}, {}),
          Pat("\\bsem\\b", {}, {}),
          Pat("campaign", {}, {}),
          Pat("content\\s+marketing", {}, {})
      >>],
      [cat |-> "admin", pats |-> <<
          Pat("administrative\\s+assistant", {}, {}),
          Pat("office\\s+assistant", {}, {<<"office", "assistant">>}),
          Pat("\\bclerical\\b", {}, {}),
          Pat("documentation", {}, {})
      >>]
    >>

\* re.search(p, text)
re_search(p, text) ==
    \/ \E i \in 1..Len(text) : text[i] \in p.one
    \/ \E i \in 1..Len(text) : \E j \in i + 2..Len(text) :
          /\ <<text[i], text[j]>> \in p.two
          /\ \A k \in i + 1..j - 1 : text[k] \in Whitespace

\* One turn of the loop "for cat, pats in Patterns_of_categories.items()",
\* from the k-th category on.
RECURSIVE DetectFrom(_, _)
DetectFrom(text, k) ==
    IF k > Len(Patterns_of_categories) THEN None
    ELSE IF \E n \in 1..Len(Patterns_of_categories[k].pats) :
                re_search(Patterns_of_categories[k].pats[n], text)
         THEN Patterns_of_categories[k].cat
         ELSE DetectFrom(text, k + 1)

\* A detector that keeps looping after a match, so that the last matching
\* category wins.
RECURSIVE DetectLastFrom(_, _, _)
DetectLastFrom(text, k, found) ==
    IF k > Len(Patterns_of_categories) THEN found
    ELSE DetectLastFrom(text, k + 1,
            IF \E n \in 1..Len(Patterns_of_categories[k].pats) :
                   re_search(Patterns_of_categories[k].pats[n], text)
            THEN Patterns_of_categories[k].cat
            ELSE found)

detect_last_match(text) == DetectLastFrom(lower(str(text)), 1, None)

to_detect_the_category_of_resume(text) == DetectFrom(lower(str(text)), 1)

(***************************************************************************)
(* Single call: to_detect_the_category_of_resume                           *)
(***************************************************************************)
\* Longest resume text the detection specification draws.
MaxLen == 3

DetectTokens ==
    {"QA", "testing", "budget", "python", "internet", "hr", "SEO,", "office",
     "assistant", "data", "analyst", "painting", " ", "\n"}

RECURSIVE SeqsUpTo(_, _)
SeqsUpTo(S, n) ==
    IF n = 0 THEN {<<>>}
    ELSE LET shorter == SeqsUpTo(S, n - 1)
         IN  shorter \cup {Append(s, x) : s \in {t \in shorter : Len(t) = n - 1}, x \in S}

DetectTexts == {t \in SeqsUpTo(DetectTokens, MaxLen) : IsText(t)}

InitDetect ==
    /\ fn = "to_detect_the_category_of_resume"
    /\ args \in {[text |-> t] : t \in DetectTexts}
    /\ ret = Pending
    /\ AppOff

CallDetect ==
    /\ fn = "to_detect_the_category_of_resume"
    /\ ret = Pending
    /\ ret' = Returned(to_detect_the_category_of_resume(args.text))
    /\ UNCHANGED <<fn, args, app>>

NextDetect == CallDetect

SpecDetect == InitDetect /\ [][NextDetect]_vars

\* The order of the categories as the specification states it.
CategoryOrder == <<"qa", "finance", "data", "software", "hr", "marketing", "admin">>

\* The positions, in CategoryOrder, of the categories one of whose patterns
\* matches the lower-cased text.
MatchingCategories(text) ==
    {i \in 1..Len(CategoryOrder) :
        \E k \in 1..Len(Patterns_of_categories) :
            /\ Patterns_of_categories[k].cat = CategoryOrder[i]
            /\ \E n \in 1..Len(Patterns_of_categories[k].pats) :
                  re_search(Patterns_of_categories[k].pats[n], lower(text))}

DetectReturned == fn = "to_detect_the_category_of_resume" /\ ret.st = "returned"

\* C6: detectCategory returns the first category, in the order qa, finance,
\* data, software, hr, marketing, admin, that has a pattern matching the
\* lower-cased text, and returns absent exactly when no category has one.
C6_FirstMatchingCategory ==
    DetectReturned =>
        LET m == MatchingCategories(args.text)
        IN  /\ (ret.v = None) <=> (m = {})
            /\ m # {} =>
                  \E i \in m : /\ ret.v = CategoryOrder[i]
                               /\ \A j \in m : i <= j

\* A text matching patterns of qa and of a later category is labelled qa.
C6_Witness ==
    /\ DetectReturned
    /\ Cardinality(MatchingCategories(args.text)) >= 2
    /\ ret.v = "qa"

(***************************************************************************)
(* Resume parser (src/src/resume_parser.py)                                *)
(***************************************************************************)
Formats_supported == {".pdf", ".docx", ".txt"}

\* pathlib.Path(path).suffix.lower(), over the suffixes of the model
SuffixLower ==
    ".pdf" :> ".pdf" @@ ".PDF" :> ".pdf" @@ ".docx" :> ".docx" @@ ".Docx" :> ".docx" @@
    ".txt" :> ".txt" @@ ".csv" :> ".csv" @@ "" :> ""

\* What a library call on the file does: it raises, or it yields a text.
Raises == [st |-> "raises"]
Yields(t) == [st |-> "text", text |-> t]

\* The result of an extractor with the library calls it made, in order.
Extracted(text, calls) == [st |-> "returned", v |-> text, calls |-> calls]

\* A reader that returns whatever text the first extractor gives, blank or not.
read_pdf_without_blank_test(file) ==
    IF file.PdfReader.st = "text"
    THEN Extracted(text_that_is_cleaned(file.PdfReader.text), <<"PdfReader">>)
    ELSE IF file.pdfminer_extract.st = "text"
         THEN Extracted(text_that_is_cleaned(file.pdfminer_extract.text),
                        <<"PdfReader", "pdfminer_extract">>)
         ELSE Extracted(<<>>, <<"PdfReader", "pdfminer_extract">>)

\* try PdfReader(path), joining the pages' texts; except Exception: pass;
\* then try pdfminer_extract(path); except Exception: return ""
to_read_the_pdf(file) ==
    IF file.PdfReader.st = "text" /\ strip(file.PdfReader.text) # <<>>
    THEN Extracted(text_that_is_cleaned(file.PdfReader.text), <<"PdfReader">>)
    ELSE IF file.pdfminer_extract.st = "text"
         THEN Extracted(text_that_is_cleaned(file.pdfminer_extract.text),
                        <<"PdfReader", "pdfminer_extract">>)
         ELSE Extracted(<<>>, <<"PdfReader", "pdfminer_extract">>)

to_read_the_docx(file) ==
    IF file.Document.st = "text"
    THEN Extracted(text_that_is_cleaned(file.Document.text), <<"Document">>)
    ELSE Extracted(<<>>, <<"Document">>)

to_read_the_txt(file) ==
    IF file.read_text.st = "text"
    THEN Extracted(text_that_is_cleaned(file.read_text.text), <<"read_text">>)
    ELSE Extracted(<<>>, <<"read_text">>)

\* A parser that compares the suffix as written, without .lower().
parse_case_sensitive(suffix, file) ==
    IF suffix = ".pdf" THEN to_read_the_pdf(file)
    ELSE IF suffix = ".docx" THEN to_read_the_docx(file)
    ELSE IF suffix = ".txt" THEN to_read_the_txt(file)
    ELSE [st |-> "raised", exc |-> "ValueError", calls |-> <<>>]

\* suffix is pathlib.Path(path).suffix; file is what the libraries do on path.
to_parse_the_resume(suffix, file) ==
    LET ext == SuffixLower[suffix]
    IN  IF ext = ".pdf" THEN to_read_the_pdf(file)
        ELSE IF ext = ".docx" THEN to_read_the_docx(file)
        ELSE IF ext = ".txt" THEN to_read_the_txt(file)
        ELSE [st |-> "raised", exc |-> "ValueError", calls |-> <<>>]

(***************************************************************************)
(* Single call: to_parse_the_resume                                        *)
(***************************************************************************)
\* What a file can hold: nothing, whitespace only, a resume, or only a
\* character that cannot be encoded.
FileTexts ==
    {<<>>, <<" ", "\n">>, <<"\n", "QA", "\t", " ", "testing", "\n">>, <<"<U+D800>">>}

LibraryOutcomes == {Raises} \cup {Yields(t) : t \in FileTexts}

Files ==
    [PdfReader : LibraryOutcomes, pdfminer_extract : LibraryOutcomes,
     Document : LibraryOutcomes, read_text : LibraryOutcomes]

InitParse ==
    /\ fn = "to_parse_the_resume"
    /\ args \in [suffix : DOMAIN SuffixLower, file : Files]
    /\ ret = Pending
    /\ AppOff

CallParse ==
    /\ fn = "to_parse_the_resume"
    /\ ret = Pending
    /\ ret' = to_parse_the_resume(args.suffix, args.file)
    /\ UNCHANGED <<fn, args, app>>

NextParse == CallParse

SpecParse == InitParse /\ [][NextParse]_vars

ParseDone == fn = "to_parse_the_resume" /\ ret # Pending

\* The suffixes that are .pdf, .docx or .txt up to case.
SupportedAnyCase == {".pdf", ".PDF", ".docx", ".Docx", ".txt"}

\* The library calls a supported suffix relies on.
ExtractorsOf(suffix) ==
    IF suffix \in {".pdf", ".PDF"} THEN {"PdfReader", "pdfminer_extract"}
    ELSE IF suffix \in {".docx", ".Docx"} THEN {"Document"}
    ELSE {"read_text"}

\* C3: extractText raises only for an extension that is not .pdf, .docx or
\* .txt (compared without case), and then raises InvalidInput before any read
\* of the file; for a supported extension it returns, and returns the empty
\* string when every extractor of that format fails.
C3_OnlyUnsupportedRaises ==
    ParseDone =>
        /\ (ret.st = "raised") <=> (args.suffix \notin SupportedAnyCase)
        /\ ret.st = "raised" => ret.exc = "ValueError" /\ ret.calls = <<>>
        /\ ( /\ args.suffix \in SupportedAnyCase
             /\ \A lib \in ExtractorsOf(args.suffix) : args.file[lib].st = "raises" )
           => ret.st = "returned" /\ ret.v = <<>>

\* A corrupt PDF with an upper-case suffix: both extractors raise, "" comes back.
C3_Witness ==
    /\ ParseDone
    /\ args.suffix = ".PDF"
    /\ args.file.PdfReader.st = "raises"
    /\ args.file.pdfminer_extract.st = "raises"
    /\ ret.st = "returned" /\ ret.v = <<>>
    /\ ret.calls = <<"PdfReader", "pdfminer_extract">>

(***************************************************************************)
(* Data frames                                                             *)
(***************************************************************************)
\* rows[i][j] is the cell of the i-th row under columns[j], index[i] its label.
DataFrame(columns, index, rows) == [columns |-> columns, index |-> index, rows |-> rows]

\* Python's None where a data frame is expected.
NoDataFrame == [py |-> "None"]

len(df) == Len(df.rows)

HasColumn(df, c) == \E j \in 1..Len(df.columns) : df.columns[j] = c

ColumnOf(df, c) == CHOOSE j \in 1..Len(df.columns) : df.columns[j] = c

Cell(df, i, c) == df.rows[i][ColumnOf(df, c)]

RangeIndex(n) == [i \in 1..n |-> i - 1]

\* df.reset_index(drop=True)
reset_index(df) == [df EXCEPT !.index = RangeIndex(Len(df.rows))]

\* df.iloc[positions], positions counted from 1
iloc(df, positions) ==
    [df EXCEPT !.index = [k \in 1..Len(positions) |-> df.index[positions[k]]],
               !.rows = [k \in 1..Len(positions) |-> df.rows[positions[k]]]]

\* The values in the cells of a frame.
CellsOf(df) == {df.rows[i][j] : i \in 1..Len(df.rows), j \in 1..Len(df.columns)}

\* "for col in cols: if col in df.columns: df[col] = df[col].apply(f)", and
\* the same loop for .astype and .fillna, which act cell by cell; f maps each
\* cell value to its new value.
ApplyWherePresent(df, cols, f) ==
    [df EXCEPT !.rows =
        [i \in 1..Len(df.rows) |->
            [j \in 1..Len(df.columns) |->
                IF df.columns[j] \in cols THEN f[df.rows[i][j]] ELSE df.rows[i][j]]]]

\* The sequences of n distinct positions out of 1..m: what df.sample(n) may draw.
Draws(m, n) ==
    {d \in [1..n -> 1..m] : \A a, b \in 1..n : a # b => d[a] # d[b]}

\* df.sample(n, random_state=42).reset_index(drop=True), pick being the draw
sample(df, pick) == reset_index(iloc(df, pick))

\* The draws a call with row cap n may need on a frame of m rows.
PicksFor(m, n) == IF m > n THEN Draws(m, n) ELSE {<<>>}

(***************************************************************************)
(* Recommender (src/src/model.py)                                          *)
(***************************************************************************)
\* Per category, the keywords and the words of the model in which
\* str.contains("|".join(keywords), case=False) finds one of them.
Filter_for_title_category ==
       "qa" :> [keywords |-> <<"qa", "quality", "test", "testing", "automation", "sdet">>,
                hits |-> {"QA", "automation", "testing,", "qa", "testing", "quality",
                          "Tester", "tester"}]
    @@ "finance" :> [keywords |-> <<"finance", "account", "audit", "tax", "analyst", "controller">>,
                hits |-> {"analyst", "audits,", "tax", "taxi", "Accountant", "audit",
                          "accountant"}]
    @@ "data" :> [keywords |-> <<"data", "ml", "ai", "analytics", "scientist", "engineer">>,
                hits |-> {"engineer", "Data", "data", "painting", "Engineer"}]
    @@ "software" :> [keywords |-> <<"software", "developer", "engineer", "programmer",
                                    "web", "frontend", "backend">>,
                hits |-> {"engineer", "Software", "developer", "Engineer", "software"}]
    @@ "hr" :> [keywords |-> <<"hr", "recruit", "talent", "payroll">>,
                hits |-> {"HR", "recruitment", "payroll", "hr"}]
    @@ "marketing" :> [keywords |-> <<"marketing", "seo", "sem", "content", "digital">>,
                hits |-> {"Digital", "SEO,", "content", "seo", "digital", "seo,"}]
    @@ "admin" :> [keywords |-> <<"admin", "assistant", "office">>,
                hits |-> {"office", "assistant"}]

\* TfidfVectorizer(stop_words="english"): the tokens that yield no term (stop
\* words, tokens without two word characters), and the terms of punctuated words.
NoTerm == {"in", "and", "with", "||"} \cup Whitespace

Punctuated ==
    "selenium," :> "selenium" @@ "testing," :> "testing" @@
    "validation." :> "validation" @@ "audits," :> "audits" @@
    "budgeting," :> "budgeting" @@ "dashboards." :> "dashboards" @@
    "python," :> "python" @@ "react," :> "react" @@ "development." :> "development" @@
    "sql," :> "sql" @@ "bi," :> "bi" @@ "visualization." :> "visualization" @@
    "seo," :> "seo" @@ "strategy," :> "strategy" @@ "ads." :> "ads" @@
    "systems." :> "systems"

\* The terms the vectorizer's analyzer finds in a text.
TermsOf(text) ==
    {IF w \in DOMAIN Punctuated THEN Punctuated[w] ELSE w :
        w \in {lower(text)[i] : i \in 1..Len(text)} \ NoTerm}

\* pd.read_csv(jobs_csv_path): disk is the file behind the default path
read_csv(jobs_csv_path, disk) ==
    IF jobs_csv_path = NoDataFrame THEN Raised("ValueError")
    ELSE IF ~disk.exists THEN Raised("FileNotFoundError")
    ELSE Returned(disk.df)

\* df.get(col, "").astype(str) raises AttributeError on the default "".
to_compose_jobcorpus(df) ==
    IF \E c \in {"JobTitle", "Skills", "JobDescription"} : ~HasColumn(df, c)
    THEN Raised("AttributeError")
    ELSE Returned(
            [i \in 1..len(df) |->
                text_that_is_cleaned(
                    str(Cell(df, i, "JobTitle")) \o <<" ", "||", " ">> \o
                    str(Cell(df, i, "Skills")) \o <<" ", "||", " ">> \o
                    str(Cell(df, i, "JobDescription")))])

\* df[col].astype(str).fillna(""): astype(str) turns nan into "nan", which
\* fillna then no longer sees.
astype_str_fillna(x) == str(x)

IsDataFrame(x) == "columns" \in DOMAIN x

\* JobRecommender.__init__; pick is the draw of df.sample when it is taken.
JobRecommender(jobs_csv_path, max_rows, disk, pick) ==
    LET loaded == IF IsDataFrame(jobs_csv_path) THEN Returned(jobs_csv_path)
                  ELSE read_csv(jobs_csv_path, disk)
    IN  IF loaded.st = "raised" THEN loaded
        ELSE
        LET filled == ApplyWherePresent(loaded.v,
                          {loaded.v.columns[j] : j \in 1..Len(loaded.v.columns)},
                          [x \in CellsOf(loaded.v) |-> astype_str_fillna(x)])
            cleaned == ApplyWherePresent(filled, {"JobTitle", "JobDescription", "Skills"},
                                         [x \in CellsOf(filled) |-> text_that_is_cleaned(x)])
            df == IF len(cleaned) > max_rows THEN sample(cleaned, pick) ELSE cleaned
            texts_for_jobs == to_compose_jobcorpus(df)
        IN  IF texts_for_jobs.st = "raised" THEN texts_for_jobs
            ELSE
            LET vocabulary == UNION {TermsOf(texts_for_jobs.v[i]) : i \in 1..len(df)}
            IN  \* fit_transform: "empty vocabulary"
                IF vocabulary = {} THEN Raised("ValueError")
                ELSE Returned([jobs_df |-> df, max_rows |-> max_rows,
                               vocabulary |-> vocabulary])

\* The rows one of whose JobTitle, JobDescription, Skills holds a keyword.
KeywordMask(df, cat) ==
    {i \in 1..len(df) :
        \E c \in {"JobTitle", "JobDescription", "Skills"} :
            \E k \in 1..Len(Cell(df, i, c)) :
                Cell(df, i, c)[k] \in Filter_for_title_category[cat].hits}

\* The members of a set of positions in increasing order.
RECURSIVE Ascending(_)
Ascending(S) ==
    IF S = {} THEN <<>>
    ELSE LET x == CHOOSE x \in S : \A y \in S : x <= y
         IN  <<x>> \o Ascending(S \ {x})

\* A filter that falls back to the full dataset at five rows too.
filter_fallback_at_five(df, resume_text) ==
    LET cat == to_detect_the_category_of_resume(resume_text)
    IN  IF cat = None THEN Returned([df |-> df, cat |-> None])
        ELSE IF \E c \in {"JobTitle", "JobDescription", "Skills"} : ~HasColumn(df, c)
        THEN Raised("KeyError")
        ELSE LET filtered == iloc(df, Ascending(KeywordMask(df, cat)))
             IN  IF len(filtered) <= 5
                 THEN Returned([df |-> df, cat |-> cat])
                 ELSE Returned([df |-> filtered, cat |-> cat])

to_filter_the_jobs_basedon_category(df, resume_text) ==
    LET cat == to_detect_the_category_of_resume(resume_text)
    IN  IF cat = None THEN Returned([df |-> df, cat |-> None])
        ELSE IF \E c \in {"JobTitle", "JobDescription", "Skills"} : ~HasColumn(df, c)
        THEN Raised("KeyError")
        ELSE LET filtered == iloc(df, Ascending(KeywordMask(df, cat)))
             IN  IF len(filtered) < 5
                 THEN Returned([df |-> df, cat |-> cat])
                 ELSE Returned([df |-> filtered, cat |-> cat])

\* Cosine similarities in units of 10^-5.  A job whose corpus entry shares no
\* vocabulary term with the resume scores 0; one that does scores above 0, and
\* as much as 1 plus a rounding error.
PositiveSims == {25001, 25004, 100001}

\* cosine_similarity(job_vecs, resume_vec).flatten(): what the fitted
\* vectorizer may give.  Equal corpus entries have equal vectors.
Similarities(self, corpus, resume_text) ==
    LET resume_terms == TermsOf(text_that_is_cleaned(resume_text)) \cap self.vocabulary
        shares(i) == TermsOf(corpus[i]) \cap resume_terms # {}
        sharing == {corpus[i] : i \in {k \in 1..Len(corpus) : shares(k)}}
    IN  {[i \in 1..Len(corpus) |-> IF shares(i) THEN g[corpus[i]] ELSE 0] :
            g \in [sharing -> PositiveSims]}

Min(a, b) == IF a <= b THEN a ELSE b

\* np.argpartition(-sim, kth)[:top_k] as a set of positions: the kth + 1
\* leading entries hold the entry in sorted place (the pivot) and entries that
\* score no less, the others score no more.  With kth = min(top_k - 1,
\* len(sim) - 1) the slice [:top_k] is exactly those leading entries.
argpartition_top(sim, kth, top_k) ==
    {S \in SUBSET (1..Len(sim)) :
        /\ Cardinality(S) = Min(kth + 1, top_k)
        /\ \E pivot \in S :
              /\ \A a \in S : sim[a] >= sim[pivot]
              /\ \A b \in (1..Len(sim)) \ S : sim[b] <= sim[pivot]}

\* An argsort that forgets the minus sign: lowest score first.
RECURSIVE argsort_ascending(_, _)
argsort_ascending(sim, S) ==
    IF S = {} THEN {<<>>}
    ELSE UNION {{<<x>> \o t : t \in argsort_ascending(sim, S \ {x})} :
                   x \in {y \in S : \A z \in S : sim[y] <= sim[z]}}

\* top_idx[np.argsort(-sim[top_idx])]: the orders of S by falling score; the
\* sort is not stable, equal scores come in any order.
RECURSIVE argsort_descending(_, _)
argsort_descending(sim, S) ==
    IF S = {} THEN {<<>>}
    ELSE UNION {{<<x>> \o t : t \in argsort_descending(sim, S \ {x})} :
                   x \in {y \in S : \A z \in S : sim[y] >= sim[z]}}

\* (np.clip(sim, 0, 1) * 100).round(2), in hundredths of a percent
similarity(x) ==
    LET clipped == IF x < 0 THEN 0 ELSE IF x > 100000 THEN 100000 ELSE x
        q == clipped \div 10
        r == clipped % 10
    IN  IF r < 5 THEN q
        ELSE IF r > 5 THEN q + 1
        ELSE IF q % 2 = 0 THEN q ELSE q + 1

OutColumns == <<"JobTitle", "Company Name", "Contact Person", "Skills", "Job Portal">>

\* JobRecommender.recommend, top_k >= 1: every result the call may give, with
\* the locals jobs_filtered, cat, sim and top_idx it was computed from.
recommend(self, resume_text, top_k) ==
    LET f == to_filter_the_jobs_basedon_category(self.jobs_df, resume_text)
    IN  IF f.st = "raised" THEN {f}
        ELSE
        LET jobs_filtered == f.v.df
            corpus == to_compose_jobcorpus(jobs_filtered)
        IN  IF corpus.st = "raised" THEN {corpus}
            ELSE IF Len(corpus.v) = 0
            THEN {Returned([out |-> DataFrame(OutColumns \o <<"similarity">>, <<>>, <<>>),
                            jobs_filtered |-> jobs_filtered, cat |-> f.v.cat,
                            sim |-> <<>>, top_idx |-> <<>>])}
            ELSE
            LET keep_cols == SelectSeq(OutColumns, LAMBDA c : HasColumn(jobs_filtered, c))
                Out(sim, top_idx) ==
                    DataFrame(keep_cols \o <<"similarity">>,
                              RangeIndex(Len(top_idx)),
                              [k \in 1..Len(top_idx) |->
                                  [j \in 1..Len(keep_cols) + 1 |->
                                      IF j <= Len(keep_cols)
                                      THEN Cell(jobs_filtered, top_idx[k], keep_cols[j])
                                      ELSE similarity(sim[top_idx[k]])]])
            IN  UNION { UNION {
                    { Returned([out |-> Out(sim, top_idx),
                                jobs_filtered |-> jobs_filtered, cat |-> f.v.cat,
                                sim |-> sim, top_idx |-> top_idx]) :
                        top_idx \in argsort_descending(sim, S) } :
                    S \in argpartition_top(sim, Min(top_k - 1, Len(sim) - 1), top_k) } :
                    sim \in Similarities(self, corpus.v, resume_text) }

(***************************************************************************)
(* Preprocessor (src/src/preprocess.py)                                    *)
(***************************************************************************)
\* c.strip().lower().replace("_", " ").replace("-", " ") over the column
\* names of the model
\* The column names of the model, spelled as words and separators.
Spelling ==
    "Job_Title" :> <<"Job", "_", "Title">> @@ "JD" :> <<"JD">> @@
    " SKILLS " :> <<" ", "SKILLS", " ">> @@
    "Employer-Name" :> <<"Employer", "-", "Name">> @@
    "Contact Person" :> <<"Contact", " ", "Person">> @@
    "Website" :> <<"Website">> @@ "Salary" :> <<"Salary">> @@
    "JobTitle" :> <<"JobTitle">> @@ "JobDescription" :> <<"JobDescription">> @@
    "Skills" :> <<"Skills">> @@ "Company Name" :> <<"Company", " ", "Name">> @@
    "Job Portal" :> <<"Job", " ", "Portal">> @@
    "_Title_" :> <<"_", "Title", "_">> @@ "POSITION" :> <<"POSITION">>

\* The string a sequence of lower-case words and spaces spells.
Spelled ==
    <<"job", " ", "title">> :> "job title" @@ <<"jd">> :> "jd" @@
    <<"skills">> :> "skills" @@ <<"employer", " ", "name">> :> "employer name" @@
    <<"contact", " ", "person">> :> "contact person" @@ <<"website">> :> "website" @@
    <<"salary">> :> "salary" @@ <<"jobtitle">> :> "jobtitle" @@
    <<"jobdescription">> :> "jobdescription" @@
    <<"company", " ", "name">> :> "company name" @@
    <<"job", " ", "portal">> :> "job portal" @@
    <<" ", "title", " ">> :> " title " @@ <<"title">> :> "title" @@
    <<"position">> :> "position" @@
    <<" ", "skills", " ">> :> " skills " @@ <<"_", "title", "_">> :> "_title_" @@
    <<"job", "_", "title">> :> "job_title" @@ <<"employer", "-", "name">> :> "employer-name"

\* str.replace(old, new) on a spelled name
replace(s, old, new) == [i \in 1..Len(s) |-> IF s[i] = old THEN new ELSE s[i]]

\* c.strip().lower().replace("_", " ").replace("-", " ")
NormalizedColumn ==
    [c \in DOMAIN Spelling |->
        Spelled[replace(replace(lower(strip(Spelling[c])), "_", " "), "-", " ")]]

collection_of_map ==
    << [standard |-> "JobTitle", variants |-> {"job title", "title", "position"}],
       [standard |-> "JobDescription", variants |-> {"job description", "description", "jd"}],
       [standard |-> "Company Name",
        variants |-> {"company", "employer name", "organization name", "business name"}],
       [standard |-> "Contact Person",
        variants |-> {"contact person", "recruiter name", "hiring manager"}],
       [standard |-> "Skills", variants |-> {"skills", "skill", "required skills", "job skills"}],
       [standard |-> "Job Portal", variants |-> {"job portal", "portal", "source", "website"}] >>

\* A rename that finds no alias.
rename_nothing(col) == col

\* df.rename(columns=to_rename_the_dictionary) on one normalized name
rename(col) ==
    IF \E k \in 1..Len(collection_of_map) : col \in collection_of_map[k].variants
    THEN collection_of_map[
            CHOOSE k \in 1..Len(collection_of_map) : col \in collection_of_map[k].variants
         ].standard
    ELSE col

\* Lines 84-101: the column names after normalization and renaming.
RenamedColumns(columns) ==
    [j \in 1..Len(columns) |-> rename(NormalizedColumn[columns[j]])]

\* df[col].fillna("").astype(str)
fillna_astype_str(x) == IF x = NaN THEN <<>> ELSE x

\* df.drop_duplicates(subset, ignore_index=True): the first row of each
\* combination of the subset's cells stays.  With no subset column the frame
\* is taken as it is; line 123 raises on it whatever line 110 did.
drop_duplicates(df, subset) ==
    LET key(i) == [k \in 1..Len(subset) |-> Cell(df, i, subset[k])]
        first == {i \in 1..len(df) : \A j \in 1..i - 1 : key(j) # key(i)}
    IN  IF subset = <<>> THEN df
        ELSE reset_index(iloc(df, Ascending(first)))

\* Words joined by single spaces.
RECURSIVE Spaced(_)
Spaced(words) ==
    IF Len(words) <= 1 THEN words
    ELSE <<Head(words), " ">> \o Spaced(Tail(words))

resumes_to_test ==
    << [cat |-> "qa", text |-> Spaced(<<"QA", "engineer", "skilled", "in", "Selenium,",
            "automation", "testing,", "and", "API", "validation.">>)],
       [cat |-> "finance", text |-> Spaced(<<"Financial", "analyst", "experienced", "in",
            "audits,", "budgeting,", "and", "Excel", "dashboards.">>)],
       [cat |-> "software", text |-> Spaced(<<"Software", "developer", "with", "skills",
            "in", "Python,", "React,", "and", "API", "development.">>)],
       [cat |-> "data", text |-> Spaced(<<"Data", "analyst", "skilled", "in", "SQL,",
            "Power", "BI,", "and", "data", "visualization.">>)],
       [cat |-> "marketing", text |-> Spaced(<<"Digital", "marketer", "experienced", "in",
            "SEO,", "content", "strategy,", "and", "Google", "Ads.">>)],
       [cat |-> "hr", text |-> Spaced(<<"HR", "manager", "with", "experience", "in",
            "recruitment", "and", "payroll", "systems.">>)] >>

\* The try block of lines 67-76.  world.environ says which variables are set,
\* world.s3 what fetching the object does, world.disk what csv_path holds.
LoadDataset(world) ==
    IF world.environ.S3_BUCKET_NAME
    THEN \* load_dataset_from_s3
         IF ~world.environ.S3_OBJECT_KEY THEN Raised("ValueError")
         ELSE IF world.s3.st = "raises" THEN Raised("ClientError")
         ELSE Returned(world.s3.df)
    ELSE IF ~world.disk.exists
         THEN Returned(NoDataFrame)      \* except FileNotFoundError: return None
         ELSE Returned(world.disk.df)

\* Lines 78-115: row cap, column names, text-field cleanup, deduplication,
\* cleaning.
CleanDataset(df0, no_of_rows_max, pick) ==
    LET capped == IF len(df0) > no_of_rows_max THEN sample(df0, pick) ELSE df0
        renamed == [capped EXCEPT !.columns = RenamedColumns(capped.columns)]
        filled == ApplyWherePresent(renamed,
                      {"JobTitle", "JobDescription", "Company Name", "Contact Person", "Skills"},
                      [x \in CellsOf(renamed) |-> fillna_astype_str(x)])
        col_of_subset == SelectSeq(<<"JobTitle", "JobDescription", "Skills">>,
                                   LAMBDA c : HasColumn(filled, c))
        deduped == drop_duplicates(filled, col_of_subset)
    IN  ApplyWherePresent(deduped, {"JobTitle", "JobDescription", "Skills"},
                          [x \in CellsOf(deduped) |-> text_that_is_cleaned(x)])

\* The loop of lines 150-158: jr.recommend(resume_text, top_k=3) and
\* results["JobTitle"] for each canned resume.
EvaluationRaises(jr) ==
    \E k \in 1..Len(resumes_to_test) :
        \E r \in recommend(jr, resumes_to_test[k].text, 3) :
            \/ r.st = "raised"
            \/ ~HasColumn(r.v.out, "JobTitle")

to_preprocess_and_to_evaluate(world, no_of_rows_max, pick) ==
    LET loaded == LoadDataset(world)
    IN  IF loaded.st = "raised" \/ loaded.v = NoDataFrame THEN loaded
        ELSE
        LET df == CleanDataset(loaded.v, no_of_rows_max, pick)
        IN  \* line 123: df['JobTitle'].nunique()
            IF ~HasColumn(df, "JobTitle") THEN Raised("KeyError")
            ELSE
            LET jr == JobRecommender(df, no_of_rows_max, world.disk, <<>>)
            IN  IF jr.st = "raised" THEN jr
                ELSE IF EvaluationRaises(jr.v) THEN Raised("KeyError")
                ELSE Returned(df)

(***************************************************************************)
(* Job datasets of the model                                               *)
(***************************************************************************)
\* Job rows, the cells in the order JobTitle, JobDescription, Skills,
\* Company Name, Contact Person, Job Portal; NaN is an empty CSV cell.
QAJob ==
    << <<"QA", " ", "Engineer">>, <<"automation", " ", "testing">>, <<"testing">>,
       <<"Acme">>, NaN, NaN >>

QAJobSpaced ==
    << <<"QA", " ", " ", "Engineer">>, <<"automation", "\n", "testing">>, <<"testing", " ">>,
       <<"Acme">>, NaN, <<"Indeed">> >>

Gardener ==
    << <<"Gardener">>, NaN, <<"plants">>, NaN, <<"HR">>, <<"Indeed">> >>

Accountant ==
    << <<"Accountant">>, <<"audit">>, <<"tax">>, <<"Acme">>, NaN, NaN >>

BlankJob == << NaN, NaN, NaN, NaN, NaN, NaN >>

\* Column names the preprocessor's alias table recognizes, and the canonical
\* names the recommender reads.
AliasColumns ==
    <<"Job_Title", "JD", " SKILLS ", "Employer-Name", "Contact Person", "Website">>

CanonicalColumns ==
    <<"JobTitle", "JobDescription", "Skills", "Company Name", "Contact Person", "Job Portal">>

\* pd.read_csv of a file with the columns at the positions `present` of
\* `names` and the given job rows.
Csv(names, present, jobs) ==
    LET pos == Ascending(present)
    IN  DataFrame([k \in 1..Len(pos) |-> names[pos[k]]],
                  RangeIndex(Len(jobs)),
                  [i \in 1..Len(jobs) |-> [k \in 1..Len(pos) |-> jobs[i][pos[k]]]])

Rep(job, n) == [i \in 1..n |-> job]

OnDisk(df) == [exists |-> TRUE, df |-> df]
NoFile == [exists |-> FALSE]

(***************************************************************************)
(* Single call: to_preprocess_and_to_evaluate                              *)
(***************************************************************************)
PreprocessJobs ==
    { <<>>, <<QAJob>>, <<BlankJob>>, <<QAJob, QAJobSpaced, Gardener>>,
      <<QAJob, QAJob, Accountant>> }

PreprocessDisks ==
    {NoFile}
    \cup {OnDisk(Csv(AliasColumns, present, jobs)) :
            present \in SUBSET (1..6), jobs \in PreprocessJobs}
    \cup {OnDisk(Csv(CanonicalColumns, 1..6, <<QAJob, Gardener>>))}

LocalWorlds ==
    {[environ |-> [S3_BUCKET_NAME |-> FALSE, S3_OBJECT_KEY |-> FALSE],
      s3 |-> Raises, disk |-> d] : d \in PreprocessDisks}

RemoteWorlds ==
    {[environ |-> [S3_BUCKET_NAME |-> TRUE, S3_OBJECT_KEY |-> k], s3 |-> o, disk |-> NoFile] :
        k \in BOOLEAN,
        o \in {Raises, [st |-> "df", df |-> Csv(AliasColumns, 1..6, <<QAJob, Gardener>>)]}}

\* A row cap below and one above the sizes of the model's datasets
\* (the defaults are 2000 and, in the script, 200 to 2000).
RowCaps == {2, 2000}

InitPreprocess ==
    /\ fn = "to_preprocess_and_to_evaluate"
    /\ args \in [world : LocalWorlds \cup RemoteWorlds, no_of_rows_max : RowCaps]
    /\ ret = Pending
    /\ AppOff

CallPreprocess ==
    /\ fn = "to_preprocess_and_to_evaluate"
    /\ ret = Pending
    /\ LET loaded == LoadDataset(args.world)
           m == IF loaded.st = "returned" /\ loaded.v # NoDataFrame THEN len(loaded.v) ELSE 0
       IN  \E pick \in PicksFor(m, args.no_of_rows_max) :
              ret' = to_preprocess_and_to_evaluate(args.world, args.no_of_rows_max, pick)
    /\ UNCHANGED <<fn, args, app>>

NextPreprocess == CallPreprocess

SpecPreprocess == InitPreprocess /\ [][NextPreprocess]_vars

PreprocessDone == fn = "to_preprocess_and_to_evaluate" /\ ret # Pending

\* The dataset was loaded: the try block gave a data frame.
DatasetLoaded ==
    /\ LoadDataset(args.world).st = "returned"
    /\ LoadDataset(args.world).v # NoDataFrame

\* The canonical name a column of the loaded file ends up under.
CanonicalOf(col) == rename(NormalizedColumn[col])

\* Some row of the loaded dataset has a word in a job-text column, so that
\* a vocabulary can be fitted.
HasJobText(df0) ==
    \E i \in 1..len(df0) : \E j \in 1..Len(df0.columns) :
        /\ CanonicalOf(df0.columns[j]) \in {"JobTitle", "JobDescription", "Skills"}
        /\ df0.rows[i][j] # NaN
        /\ TermsOf(df0.rows[i][j]) # {}

\* C9: once the dataset is loaded, preprocessAndEvaluate and its
\* self-evaluation complete and return the cleaned dataset, whichever of the
\* canonical columns are present or absent.
C9_ReturnsForEveryColumnSet ==
    (PreprocessDone /\ DatasetLoaded /\ HasJobText(LoadDataset(args.world).v))
        => ret.st = "returned" /\ IsDataFrame(ret.v)

\* What the code does instead: it returns exactly when JobTitle,
\* JobDescription and Skills are all present.
PreprocessReturnsIffTextColumns ==
    (PreprocessDone /\ DatasetLoaded /\ HasJobText(LoadDataset(args.world).v))
        => LET df0 == LoadDataset(args.world).v
               canon == {CanonicalOf(df0.columns[j]) : j \in 1..Len(df0.columns)}
           IN  (ret.st = "returned") <=> ({"JobTitle", "JobDescription", "Skills"} \subseteq canon)

(***************************************************************************)
(* Recommender calls: JobRecommender(...) and then recommend(...)          *)
(***************************************************************************)
\* Most rows of a dataset the recommender specification builds.
MaxRows == 6

\* Largest top_k it asks for.
MaxTopK == 3

\* Up to MaxRows jobs: QA jobs, then at most one gardener and one accountant.
ModelJobs ==
    {Rep(QAJob, a) \o Rep(Gardener, b) \o Rep(Accountant, c) :
        a \in 0..MaxRows, b \in 0..1, c \in 0..1} \cap
    UNION {[1..n -> {QAJob, Gardener, Accountant}] : n \in 0..MaxRows}

ModelColumnSets == {1..6, (1..6) \ {3}, (1..6) \ {4, 6}}

CsvPath == [py |-> "data/job_descriptions.csv"]

\* The recommender is given a path to a CSV with canonical column names, a
\* data frame the preprocessor cleaned, or None (the preprocessor's result
\* for a missing file).
ModelInputs ==
    {[jobs_csv_path |-> CsvPath, disk |-> OnDisk(Csv(CanonicalColumns, present, jobs))] :
        present \in ModelColumnSets, jobs \in ModelJobs}
    \cup {[jobs_csv_path |-> CsvPath, disk |-> NoFile]}
    \cup {[jobs_csv_path |-> NoDataFrame, disk |-> NoFile]}
    \cup {[jobs_csv_path |-> CleanDataset(Csv(AliasColumns, present, jobs), MaxRows, <<>>),
           disk |-> NoFile] :
        present \in ModelColumnSets, jobs \in ModelJobs}

ModelResumes ==
    { <<"QA", " ", "testing">>, <<"painting", " ", "landscapes">>,
      <<"budget", " ", "tax">>, <<"plants">> }

InitModel ==
    /\ fn = "JobRecommender"
    /\ args \in {[jobs_csv_path |-> i.jobs_csv_path, disk |-> i.disk, max_rows |-> m] :
                    i \in ModelInputs, m \in RowCaps}
    /\ ret = Pending
    /\ AppOff

\* The frame the constructor starts from, when there is one.
InputFrame(a) ==
    IF IsDataFrame(a.jobs_csv_path) THEN a.jobs_csv_path
    ELSE IF a.jobs_csv_path = CsvPath /\ a.disk.exists THEN a.disk.df
    ELSE NoDataFrame

CallJobRecommender ==
    /\ fn = "JobRecommender"
    /\ ret = Pending
    /\ LET m == IF InputFrame(args) = NoDataFrame THEN 0 ELSE len(InputFrame(args))
       IN  \E pick \in PicksFor(m, args.max_rows) :
              ret' = JobRecommender(args.jobs_csv_path, args.max_rows, args.disk, pick)
    /\ UNCHANGED <<fn, args, app>>

CallRecommend ==
    /\ fn = "JobRecommender"
    /\ ret.st = "returned"
    /\ \E resume_text \in ModelResumes, top_k \in 1..MaxTopK :
          /\ fn' = "recommend"
          /\ args' = [self |-> ret.v, resume_text |-> resume_text, top_k |-> top_k]
          /\ ret' \in recommend(ret.v, resume_text, top_k)
    /\ UNCHANGED app

NextModel == CallJobRecommender \/ CallRecommend

SpecModel == InitModel /\ [][NextModel]_vars

RecommendReturned == fn = "recommend" /\ ret.st = "returned"

\* C4: for top_k >= 1 and a non-empty filtered job set of n rows, recommend
\* returns exactly min(top_k, n) rows; they are jobs of the filtered set than
\* which no job left out scores higher; their similarity falls or stays from
\* row to row; the result's index is 0, 1, ...
C4_TopKRowsByFallingScore ==
    (RecommendReturned /\ len(ret.v.jobs_filtered) >= 1) =>
        LET out == ret.v.out
            jobs == ret.v.jobs_filtered
            sim == ret.v.sim
            idx == ret.v.top_idx
            n == len(jobs)
            k == Min(args.top_k, n)
            score(a) == out.rows[a][Len(out.columns)]
        IN  /\ len(out) = k
            /\ Len(idx) = k
            /\ \A a, b \in 1..k : a # b => idx[a] # idx[b]
            /\ \A a \in 1..k :
                  /\ idx[a] \in 1..n
                  /\ score(a) = similarity(sim[idx[a]])
                  /\ \A j \in 1..Len(out.columns) - 1 :
                        out.rows[a][j] = Cell(jobs, idx[a], out.columns[j])
                  /\ \A b \in (1..n) \ {idx[c] : c \in 1..k} : sim[idx[a]] >= sim[b]
            /\ \A a \in 1..k - 1 : score(a) >= score(a + 1)
            /\ out.index = [a \in 1..k |-> a - 1]

\* More jobs than top_k, of different scores: the result is cut and ordered.
C4_Witness ==
    /\ RecommendReturned
    /\ args.top_k >= 2
    /\ len(ret.v.jobs_filtered) > args.top_k
    /\ len(ret.v.out) = args.top_k
    /\ ret.v.out.rows[1][Len(ret.v.out.columns)]
         > ret.v.out.rows[args.top_k][Len(ret.v.out.columns)]

\* C5: filterByCategory returns the full dataset with no category when none
\* is detected; with a category it returns exactly the rows holding one of the
\* category's keywords when they are at least 5, and the full dataset when
\* they are fewer, reporting the category either way.  So the result is the
\* full dataset or a part of it of at least 5 rows.
C5_FilterOrFallback ==
    RecommendReturned =>
        LET full == args.self.jobs_df
            got == ret.v.jobs_filtered
            cat == to_detect_the_category_of_resume(args.resume_text)
            matching == IF cat = None THEN {} ELSE KeywordMask(full, cat)
        IN  /\ ret.v.cat = cat
            /\ cat = None => got = full
            /\ (cat # None /\ Cardinality(matching) >= 5) =>
                  /\ got.columns = full.columns
                  /\ got.rows = [a \in 1..Cardinality(matching) |->
                                    full.rows[Ascending(matching)[a]]]
            /\ (cat # None /\ Cardinality(matching) < 5) => got = full
            /\ got = full \/ len(got) >= 5

\* Exactly five of six jobs hold a qa keyword: those five are returned.
C5_Witness ==
    /\ RecommendReturned
    /\ ret.v.cat = "qa"
    /\ len(args.self.jobs_df) = 6
    /\ len(ret.v.jobs_filtered) = 5

\* A category is detected, fewer than five jobs hold a keyword: all are kept.
C5_WitnessFallback ==
    /\ RecommendReturned
    /\ ret.v.cat = "finance"
    /\ Cardinality(KeywordMask(args.self.jobs_df, "finance")) = 1
    /\ ret.v.jobs_filtered = args.self.jobs_df

ConstructReturned == fn = "JobRecommender" /\ ret.st = "returned"

\* C8: after construction every cell of the retained job dataset is text,
\* and every cell that was missing in the input is the empty string, in
\* every column.
C8_MissingBecomesEmptyText ==
    ConstructReturned =>
        LET df == ret.v.jobs_df
            given == InputFrame(args)
        IN  /\ \A i \in 1..len(df) : \A j \in 1..Len(df.columns) : df.rows[i][j] # NaN
            /\ len(given) <= args.max_rows =>
                  \A i \in 1..len(df) : \A j \in 1..Len(df.columns) :
                      given.rows[i][j] = NaN => df.rows[i][j] = <<>>

(***************************************************************************)
(* The Streamlit process: import of src/preprocess.py, then one script run *)
(* of src/app.py per interaction                                           *)
(***************************************************************************)
\* A local that the current run has not assigned; no file in the uploader.
Unbound == [py |-> "unbound"]
NoUpload == [py |-> "None"]

\* load_env(): with .env present load_dotenv() puts the file's variables in
\* os.environ; without it the elif evaluates the name st, which
\* src/preprocess.py never binds, before hasattr is called.
load_env(h) ==
    IF h.dotenv
    THEN Returned([branch |-> "dotenv",
                   environ |-> [v \in DOMAIN h.environ |-> h.environ[v] \/ h.dotenv_file[v]]])
    ELSE Raised("NameError")

\* A test that lets every extraction through.
extraction_check_dropped(txt) == FALSE

\* if not txt_in_the_resume.strip():
extraction_failed(txt) == strip(txt) = <<>>

\* A store that keeps nothing.
cache_store_dropped(entries, key, value) == entries

\* st.cache_data: a returned value is stored under the call's argument.
cache_store(entries, key, value) == (key :> value) @@ entries

\* Bound on the script runs of one behaviour.
MaxRuns == 3

\* Slider positions: dataset size (200 to 2000, default 800) and number of
\* recommendations (3 to 10, default 5).
SampleLimits == {200, 800}
TopKs == {3, 5}

NoS3 == [S3_BUCKET_NAME |-> FALSE, S3_OBJECT_KEY |-> FALSE]

Host(dotenv, dotenv_file, secrets, data_dir, s3, disk) ==
    [dotenv |-> dotenv, dotenv_file |-> dotenv_file, secrets |-> secrets,
     data_dir |-> data_dir, environ |-> NoS3, s3 |-> s3, disk |-> disk]

ShellJobs == <<QAJob, QAJobSpaced, Gardener>>

\* Deployments: without .env (with and without hosted secrets); with .env and
\* no data/ directory, no dataset file, a dataset file, a dataset file without
\* a job-title column; with a bucket name and no object key; with bucket and
\* key, the download failing or giving the dataset.
Hosts ==
    { Host(FALSE, NoS3, FALSE, TRUE, Raises, NoFile),
      Host(FALSE, NoS3, TRUE, TRUE, Raises, OnDisk(Csv(AliasColumns, 1..6, ShellJobs))),
      Host(TRUE, NoS3, FALSE, FALSE, Raises, NoFile),
      Host(TRUE, NoS3, FALSE, TRUE, Raises, NoFile),
      Host(TRUE, NoS3, FALSE, TRUE, Raises, OnDisk(Csv(AliasColumns, 1..6, ShellJobs))),
      Host(TRUE, NoS3, FALSE, TRUE, Raises, OnDisk(Csv(AliasColumns, 2..6, ShellJobs))),
      Host(TRUE, [S3_BUCKET_NAME |-> TRUE, S3_OBJECT_KEY |-> FALSE], FALSE, TRUE, Raises, NoFile),
      Host(TRUE, [S3_BUCKET_NAME |-> TRUE, S3_OBJECT_KEY |-> TRUE], FALSE, TRUE, Raises, NoFile),
      Host(TRUE, [S3_BUCKET_NAME |-> TRUE, S3_OBJECT_KEY |-> TRUE], FALSE, TRUE,
           [st |-> "df", df |-> Csv(AliasColumns, 1..6, ShellJobs)], NoFile) }

Unreadable ==
    [PdfReader |-> Raises, pdfminer_extract |-> Raises, Document |-> Raises,
     read_text |-> Raises]

\* Uploads the file_uploader admits (type pdf, docx, txt): a text file of
\* whitespace, a text resume, a PDF no extractor can read, a PDF whose text
\* only the fallback extractor finds.
Uploads ==
    { [suffix |-> ".txt", file |-> [Unreadable EXCEPT !.read_text = Yields(<<" ", "\n">>)]],
      [suffix |-> ".txt",
       file |-> [Unreadable EXCEPT !.read_text = Yields(<<"QA", " ", "testing", "\n">>)]],
      [suffix |-> ".PDF", file |-> Unreadable],
      [suffix |-> ".pdf",
       file |-> [Unreadable EXCEPT !.PdfReader = Yields(<<"\n">>),
                                   !.pdfminer_extract = Yields(<<"plants", " ", "audit">>)]] }

Init ==
    /\ fn = "app" /\ args = <<>> /\ ret = Pending
    /\ pc = "import"
    /\ host \in Hosts
    /\ startup = Pending
    /\ widgets = [file_that_is_uploaded |-> NoUpload, sample_limit |-> 800, top_k |-> 5]
    /\ txt_in_the_resume = <<>>
    /\ df_cleaned = Unbound /\ recommender = Unbound /\ results = Unbound
    /\ banner = "" /\ log = <<>> /\ cache = <<>>
    /\ executions = [cap \in SampleLimits |-> [started |-> 0, returned |-> 0]]
    /\ runs = 0

\* from src.preprocess import ...: the module body calls load_env().
Import ==
    /\ pc = "import"
    /\ startup' = load_env(host)
    /\ IF startup'.st = "raised"
       THEN pc' = "import_failed" /\ UNCHANGED host
       ELSE pc' = "idle" /\ host' = [host EXCEPT !.environ = startup'.v.environ]
    /\ UNCHANGED <<call, widgets, txt_in_the_resume, df_cleaned, recommender, results,
                   banner, log, cache, executions, runs>>

\* A widget changes and the script runs again, from the sidebar to the
\* test of file_that_is_uploaded.
Interact ==
    /\ pc = "idle"
    /\ runs < MaxRuns
    /\ \E up \in {NoUpload} \cup Uploads, sl \in SampleLimits, tk \in TopKs :
          /\ widgets' = [file_that_is_uploaded |-> up, sample_limit |-> sl, top_k |-> tk]
          /\ IF up = NoUpload
             THEN pc' = "idle" /\ banner' = "upload_prompt"
             ELSE pc' = "write" /\ banner' = ""
    /\ runs' = runs + 1
    /\ log' = <<>>
    /\ txt_in_the_resume' = <<>>
    /\ df_cleaned' = Unbound /\ recommender' = Unbound /\ results' = Unbound
    /\ UNCHANGED <<call, host, startup, cache, executions>>

\* with open(temp_path, "wb") as f: f.write(...)
WriteUpload ==
    /\ pc = "write"
    /\ pc' = IF host.data_dir THEN "parse" ELSE "except"
    /\ UNCHANGED <<call, host, startup, widgets, txt_in_the_resume, df_cleaned, recommender,
                   results, banner, log, cache, executions, runs>>

Parse ==
    /\ pc = "parse"
    /\ log' = Append(log, "to_parse_the_resume")
    /\ LET r == to_parse_the_resume(widgets.file_that_is_uploaded.suffix,
                                    widgets.file_that_is_uploaded.file)
       IN  IF r.st = "raised"
           THEN pc' = "except" /\ UNCHANGED txt_in_the_resume
           ELSE pc' = "check" /\ txt_in_the_resume' = r.v
    /\ UNCHANGED <<call, host, startup, widgets, df_cleaned, recommender, results, banner,
                   cache, executions, runs>>

CheckExtraction ==
    /\ pc = "check"
    /\ IF extraction_failed(txt_in_the_resume)
       THEN pc' = "idle" /\ banner' = "extraction_failed"
       ELSE pc' = "load" /\ UNCHANGED banner
    /\ UNCHANGED <<call, host, startup, widgets, txt_in_the_resume, df_cleaned, recommender,
                   results, log, cache, executions, runs>>

\* load_dataset(sample_limit) behind st.cache_data: the stored value, or a run
\* of to_preprocess_and_to_evaluate whose return value is stored.
load_dataset ==
    /\ pc = "load"
    /\ LET sample_limit == widgets.sample_limit
       IN  IF sample_limit \in DOMAIN cache
           THEN /\ df_cleaned' = cache[sample_limit]
                /\ pc' = "construct"
                /\ log' = Append(log, "load_dataset")
                /\ UNCHANGED <<cache, executions>>
           ELSE LET loaded == LoadDataset(host)
                    m == IF loaded.st = "returned" /\ loaded.v # NoDataFrame
                         THEN len(loaded.v) ELSE 0
                IN  \E pick \in PicksFor(m, sample_limit) :
                      LET r == to_preprocess_and_to_evaluate(host, sample_limit, pick)
                      IN  /\ log' = log \o <<"load_dataset", "to_preprocess_and_to_evaluate">>
                          /\ IF r.st = "raised"
                             THEN /\ pc' = "except"
                                  /\ executions' =
                                        [executions EXCEPT ![sample_limit].started = @ + 1]
                                  /\ UNCHANGED <<cache, df_cleaned>>
                             ELSE /\ pc' = "construct"
                                  /\ executions' =
                                        [executions EXCEPT ![sample_limit].started = @ + 1,
                                                           ![sample_limit].returned = @ + 1]
                                  /\ cache' = cache_store(cache, sample_limit, r.v)
                                  /\ df_cleaned' = r.v
    /\ UNCHANGED <<call, host, startup, widgets, txt_in_the_resume, recommender, results,
                   banner, runs>>

Construct ==
    /\ pc = "construct"
    /\ log' = Append(log, "JobRecommender")
    /\ LET m == IF IsDataFrame(df_cleaned) THEN len(df_cleaned) ELSE 0
       IN  \E pick \in PicksFor(m, widgets.sample_limit) :
              LET r == JobRecommender(df_cleaned, widgets.sample_limit, host.disk, pick)
              IN  IF r.st = "raised"
                  THEN pc' = "except" /\ UNCHANGED recommender
                  ELSE pc' = "recommend" /\ recommender' = r.v
    /\ UNCHANGED <<call, host, startup, widgets, txt_in_the_resume, df_cleaned, results,
                   banner, cache, executions, runs>>

\* recommender.recommend(...), the banner, and the tabs, which only display.
Recommend ==
    /\ pc = "recommend"
    /\ log' = Append(log, "recommend")
    /\ \E r \in recommend(recommender, txt_in_the_resume, widgets.top_k) :
          IF r.st = "raised"
          THEN pc' = "except" /\ UNCHANGED <<results, banner>>
          ELSE /\ pc' = "idle"
               /\ results' = r.v.out
               /\ banner' = IF len(r.v.out) > 0 THEN "success" ELSE "no_matches"
    /\ UNCHANGED <<call, host, startup, widgets, txt_in_the_resume, df_cleaned, recommender,
                   cache, executions, runs>>

\* except Exception: st.error(...); st.code(traceback.format_exc())
Except ==
    /\ pc = "except"
    /\ pc' = "idle"
    /\ banner' = "unexpected_error"
    /\ UNCHANGED <<call, host, startup, widgets, txt_in_the_resume, df_cleaned, recommender,
                   results, log, cache, executions, runs>>

Next ==
    \/ Import
    \/ Interact
    \/ WriteUpload
    \/ Parse
    \/ CheckExtraction
    \/ load_dataset
    \/ Construct
    \/ Recommend
    \/ Except

Spec == Init /\ [][Next]_vars

Invoked(f) == \E i \in 1..Len(log) : log[i] = f

\* Empty or whitespace only.
Blank(text) == \A i \in 1..Len(text) : text[i] \in Whitespace

\* The calls of a run that the script itself makes.
ScriptCalls == SelectSeq(log, LAMBDA f : f # "to_preprocess_and_to_evaluate")

IsPrefix(s, t) == Len(s) <= Len(t) /\ \A i \in 1..Len(s) : s[i] = t[i]

\* C1: in a run with an uploaded file, a blank extraction (empty or whitespace
\* only) shows the extraction-failure message and ends the run with no dataset
\* acquisition, model construction or recommend; those are invoked only after
\* a non-blank extraction, in the order acquire, construct, recommend.
C1_BlankExtractionHalts ==
    /\ IsPrefix(ScriptCalls,
                <<"to_parse_the_resume", "load_dataset", "JobRecommender", "recommend">>)
    /\ (\E f \in {"load_dataset", "to_preprocess_and_to_evaluate", "JobRecommender", "recommend"} :
            Invoked(f))
          => ~Blank(txt_in_the_resume)
    /\ (pc = "idle" /\ log = <<"to_parse_the_resume">> /\ Blank(txt_in_the_resume))
          => banner = "extraction_failed"

C1_Witness ==
    /\ pc = "idle"
    /\ widgets.file_that_is_uploaded # NoUpload
    /\ log = <<"to_parse_the_resume">>
    /\ Blank(txt_in_the_resume)
    /\ banner = "extraction_failed"

\* C2: with the local dataset file missing and no bucket configured,
\* to_preprocess_and_to_evaluate returns None without raising, and the script
\* does not construct a JobRecommender over that None.
C2_AbsentDatasetNotUsed ==
    (pc \notin {"off", "import"} /\ ~host.environ.S3_BUCKET_NAME /\ ~host.disk.exists)
       => /\ \A cap \in SampleLimits : executions[cap].started = executions[cap].returned
          /\ pc = "construct" => df_cleaned = NoDataFrame
          /\ ~(Invoked("JobRecommender") /\ df_cleaned = NoDataFrame)

\* Every dataset the host can load has the three job-text columns.
DatasetColumnsComplete ==
    LET loaded == LoadDataset(host)
    IN  (loaded.st = "returned" /\ loaded.v # NoDataFrame)
           => \A c \in {"JobTitle", "JobDescription", "Skills"} :
                 \E j \in 1..Len(loaded.v.columns) : CanonicalOf(loaded.v.columns[j]) = c

\* C7 as stated, on hosts whose dataset has every job-text column:
\* to_preprocess_and_to_evaluate is executed at most once per row cap.
C7_ExecutedOncePerRowCap ==
    (pc \notin {"off", "import"} /\ DatasetColumnsComplete)
       => \A cap \in SampleLimits : executions[cap].started <= 1

\* C7, amended: to_preprocess_and_to_evaluate returns at most once per row
\* cap; what it returned (a dataset or None) is stored and is what every
\* later run with that row cap works on, while an execution that raised
\* stored nothing; and a run that reaches recommend has constructed its own
\* JobRecommender.
C7_ReturnsOncePerRowCap ==
    pc \notin {"off", "import"}
       => /\ \A cap \in SampleLimits :
                /\ executions[cap].returned <= 1
                /\ cap \in DOMAIN cache <=> executions[cap].returned = 1
          /\ pc = "construct" =>
                /\ widgets.sample_limit \in DOMAIN cache
                /\ df_cleaned = cache[widgets.sample_limit]
          /\ pc = "recommend" =>
                /\ recommender # Unbound
                /\ ScriptCalls = <<"to_parse_the_resume", "load_dataset", "JobRecommender">>

\* A later run reuses the dataset of an earlier run with the same row cap and
\* has constructed a recommender of its own.
C7_Witness ==
    /\ pc = "recommend"
    /\ runs >= 2
    /\ Invoked("load_dataset")
    /\ ~Invoked("to_preprocess_and_to_evaluate")
    /\ executions[widgets.sample_limit].returned = 1
    /\ recommender # Unbound

\* C10: load_env at import completes without error, taking the branch of the
\* first source present: .env, else the hosted secrets, else none.
C10_LoadEnvironmentCompletes ==
    (pc \notin {"off", "import"})
       => /\ startup.st = "returned"
          /\ startup.v.branch = IF host.dotenv THEN "dotenv"
                                ELSE IF host.secrets THEN "secrets" ELSE "none"

(***************************************************************************)
(* Single call: text_that_is_cleaned, and a second call on its result      *)
(***************************************************************************)
MaxCleanLen == 5

CleanTokens == Whitespace \cup {"QA", "<U+D800>", "QA<U+D800>"}

\* Strings: no two words adjacent, a word being a maximal run.
CleanTexts == {t \in SeqsUpTo(CleanTokens, MaxCleanLen) : IsText(t)}

InitClean ==
    /\ fn = "text_that_is_cleaned"
    /\ args \in CleanTexts \cup NotStr
    /\ ret = Pending
    /\ AppOff

CallClean ==
    /\ fn = "text_that_is_cleaned"
    /\ ret = Pending
    /\ ret' = Returned(text_that_is_cleaned(args))
    /\ UNCHANGED <<fn, args, app>>

CallCleanAgain ==
    /\ fn = "text_that_is_cleaned"
    /\ ret.st = "returned"
    /\ "again" \notin DOMAIN ret
    /\ ret' = [st |-> "returned", v |-> ret.v, again |-> text_that_is_cleaned(ret.v)]
    /\ UNCHANGED <<fn, args, app>>

NextClean == CallClean \/ CallCleanAgain

SpecClean == InitClean /\ [][NextClean]_vars

\* C11: clean(clean(s)) = clean(s) for every string s; clean(s) has no tab or
\* newline, no two whitespace characters in a row and no leading or trailing
\* whitespace; and clean of a value that is not a string is the empty string.
C11_CleanIdempotent ==
    (fn = "text_that_is_cleaned" /\ ret.st = "returned")
       => /\ "again" \in DOMAIN ret => ret.again = ret.v
          /\ \A i \in 1..Len(ret.v) : ret.v[i] \notin {"\t", "\n"}
          /\ \A i \in 1..Len(ret.v) - 1 :
                ~(ret.v[i] \in Whitespace /\ ret.v[i + 1] \in Whitespace)
          /\ ret.v # <<>> => ret.v[1] \notin Whitespace /\ ret.v[Len(ret.v)] \notin Whitespace
          /\ args \in NotStr => ret.v = <<>>

\* A string with a tab, a newline run around an unencodable character and
\* outer whitespace has been cleaned twice.
C11_Witness ==
    /\ fn = "text_that_is_cleaned"
    /\ args = <<"\t", "QA", "\n", "<U+D800>", " ">>
    /\ ret.st = "returned"
    /\ "again" \in DOMAIN ret
    /\ ret.v = <<"QA">>

(***************************************************************************)
(* Single step: the column normalization of to_preprocess_and_to_evaluate  *)
(***************************************************************************)
MaxColumns == 2

\* The headers of a CSV file: pd.read_csv gives distinct names.
Headers ==
    {h \in SeqsUpTo(DOMAIN Spelling, MaxColumns) :
        \A i, j \in 1..Len(h) : i # j => h[i] # h[j]}

InitNormalize ==
    /\ fn = "normalize_columns"
    /\ args \in Headers
    /\ ret = Pending
    /\ AppOff

CallNormalize ==
    /\ fn = "normalize_columns"
    /\ ret = Pending
    /\ ret' = Returned(RenamedColumns(args))
    /\ UNCHANGED <<fn, args, app>>

NextNormalize == CallNormalize

SpecNormalize == InitNormalize /\ [][NextNormalize]_vars

\* The name lower-cased, then trimmed, then with "_" and "-" turned to spaces.
LowerTrimReplace(c) ==
    LET trimmed == strip(lower(Spelling[c]))
    IN  Spelled[[i \in 1..Len(trimmed) |->
                    IF trimmed[i] \in {"_", "-"} THEN " " ELSE trimmed[i]]]

Aliases == UNION {collection_of_map[k].variants : k \in 1..Len(collection_of_map)}

\* C12: every input column ends up, at its position, under the canonical
\* name whose alias its normalized name (lower-cased, trimmed, "_" and "-"
\* replaced by spaces) is, and under its normalized name when that is no
\* alias; "Job_Title" ends up as JobTitle.
C12_ColumnsNormalized ==
    (fn = "normalize_columns" /\ ret.st = "returned")
       => /\ Len(ret.v) = Len(args)
          /\ \A j \in 1..Len(args) :
                LET n == LowerTrimReplace(args[j])
                IN  /\ \A k \in 1..Len(collection_of_map) :
                          n \in collection_of_map[k].variants
                             => ret.v[j] = collection_of_map[k].standard
                    /\ n \notin Aliases => ret.v[j] = n
                    /\ args[j] = "Job_Title" => ret.v[j] = "JobTitle"

\* "Job_Title" has become JobTitle next to a column that matches no alias.
C12_Witness ==
    /\ fn = "normalize_columns"
    /\ ret.st = "returned"
    /\ args = <<"Salary", "Job_Title">>
    /\ ret.v = <<"salary", "JobTitle">>

(***************************************************************************)
(* to_read_the_pdf, reached through to_parse_the_resume                    *)
(***************************************************************************)
PdfParsed == ParseDone /\ args.suffix \in {".pdf", ".PDF"}

\* PdfReader raised, or the text of the pages is empty or whitespace only.
PrimaryFailed ==
    \/ args.file.PdfReader.st = "raises"
    \/ Blank(args.file.PdfReader.text)

\* C13: PdfReader is always tried first; pdfminer_extract is invoked exactly
\* when PdfReader raised or gave blank text; non-blank PdfReader text is
\* returned cleaned; when pdfminer_extract is invoked the result is its
\* cleaned text, or "" if it raises.
C13_PdfFallbackProtocol ==
    PdfParsed =>
        /\ ret.st = "returned"
        /\ ret.calls[1] = "PdfReader"
        /\ (\E i \in 1..Len(ret.calls) : ret.calls[i] = "pdfminer_extract") <=> PrimaryFailed
        /\ ~PrimaryFailed =>
              /\ ret.calls = <<"PdfReader">>
              /\ ret.v = text_that_is_cleaned(args.file.PdfReader.text)
        /\ PrimaryFailed =>
              /\ ret.calls = <<"PdfReader", "pdfminer_extract">>
              /\ ret.v = IF args.file.pdfminer_extract.st = "raises" THEN <<>>
                         ELSE text_that_is_cleaned(args.file.pdfminer_extract.text)

\* PdfReader gave whitespace only and pdfminer_extract the resume.
C13_Witness ==
    /\ PdfParsed
    /\ args.file.PdfReader = Yields(<<" ", "\n">>)
    /\ args.file.pdfminer_extract = Yields(<<"\n", "QA", "\t", " ", "testing", "\n">>)
    /\ ret.calls = <<"PdfReader", "pdfminer_extract">>
    /\ ret.v = <<"QA", " ", "testing">>

(***************************************************************************)
(* The rows to_preprocess_and_to_evaluate returns                          *)
(***************************************************************************)
\* The JobTitle, JobDescription and Skills values of a row.
JobKey(df, i) == [c \in {"JobTitle", "JobDescription", "Skills"} |-> Cell(df, i, c)]

\* C14: in the dataset to_preprocess_and_to_evaluate returns, no two rows
\* have the same final JobTitle, JobDescription and Skills values.
C14_ReturnedRowsDistinct ==
    (PreprocessDone /\ ret.st = "returned" /\ ret.v # NoDataFrame)
       => \A i, j \in 1..len(ret.v) : i # j => JobKey(ret.v, i) # JobKey(ret.v, j)
====
